---- MODULE Spec2Model ----
(***************************************************************************)
(* The two Rust examples of rust/examples: 01_hello_world.rs and           *)
(* 02_variables.rs.  Every invocation of an example is a process of its    *)
(* own, with its own stack frame and its own standard output; NumRuns      *)
(* invocations are stepped in any interleaving, one statement of main per  *)
(* step.  Standard output is the sequence of complete lines written so     *)
(* far (println! writes the formatted text and the line terminator in one  *)
(* call).  Standard output is taken to be writable, the normal execution   *)
(* environment.                                                            *)
(***************************************************************************)
EXTENDS Integers, Sequences, FiniteSets, TLC

\* Number of invocations stepped side by side.
NumRuns == 2

Runs == 1..NumRuns

Programs == {"hello", "variables"}

VARIABLES
    prog,    \* prog[r]: the example run r executes, "none" before it is launched
    pc,      \* pc[r]: source line of the next statement of main
    status,  \* status[r]: "not_started", "running", "success" or "panicked"
    frame,   \* frame[r]: storage of main's bindings, slot -> typed value
    env,     \* env[r]: the scope, name -> slot the name currently refers to
    out      \* out[r]: lines written to standard output so far

vars == <<prog, pc, status, frame, env, out>>

----------------------------------------------------------------------------
\* Primitive types and operations of the language the examples use.

\* i32::MAX and i32::MIN.
I32Max == (2^30 - 1) * 2 + 1
I32Min == (0 - I32Max) - 1

\* a + b leaves the range of i32.
AddOverflows(a, b) ==
    \/ b > 0 /\ a > I32Max - b
    \/ b < 0 /\ a < I32Min - b

\* a + b in two's complement (i32::wrapping_add).
WrapAdd(a, b) ==
    IF ~AddOverflows(a, b) THEN a + b
    ELSE IF b > 0 THEN ((a - I32Max) + (b - I32Max)) - 2
    ELSE (a - I32Min) + (b - I32Min)

\* a * b leaves the range of i32.
MulOverflows(a, b) ==
    IF a = 0 \/ b = 0 THEN FALSE
    ELSE IF a > 0 /\ b > 0 THEN a > I32Max \div b
    ELSE IF a < 0 /\ b < 0
         THEN a = I32Min \/ b = I32Min \/ (0 - a) > I32Max \div (0 - b)
    ELSE IF a > 0 THEN b < ((I32Min + a) - 1) \div a
    ELSE a < ((I32Min + b) - 1) \div b

RECURSIVE WrapMulNat(_, _)
WrapMulNat(a, n) ==
    IF n = 0 THEN 0
    ELSE LET h == WrapMulNat(WrapAdd(a, a), n \div 2)
         IN  IF n % 2 = 1 THEN WrapAdd(h, a) ELSE h

WrapNeg(a) == IF a = I32Min THEN I32Min ELSE 0 - a

\* a * b in two's complement (i32::wrapping_mul).
WrapMul(a, b) ==
    IF b >= 0 THEN WrapMulNat(a, b)
    ELSE IF b = I32Min THEN (IF a % 2 = 0 THEN 0 ELSE I32Min)
    ELSE WrapNeg(WrapMulNat(a, 0 - b))

I32(v) == [ty |-> "i32", val |-> v]
Usize(v) == [ty |-> "usize", val |-> v]
Str(bytes) == [ty |-> "&str", val |-> bytes]

\* str::len: the length of the text in bytes of its UTF-8 encoding.
StrLen(s) == Len(s)

Digit(d) ==
    CASE d = 0 -> "0" [] d = 1 -> "1" [] d = 2 -> "2" [] d = 3 -> "3"
      [] d = 4 -> "4" [] d = 5 -> "5" [] d = 6 -> "6" [] d = 7 -> "7"
      [] d = 8 -> "8" [] d = 9 -> "9"

\* Variant of DisplayNat: the digits come out least significant first.
RECURSIVE DisplayNatReversed(_)
DisplayNatReversed(n) ==
    IF n < 10 THEN Digit(n)
    ELSE Digit(n % 10) \o DisplayNatReversed(n \div 10)

RECURSIVE DisplayNat(_)
DisplayNat(n) ==
    IF n < 10 THEN Digit(n) ELSE DisplayNat(n \div 10) \o Digit(n % 10)

\* The digits of the magnitude of a negative integer (i32::MIN has no
\* positive counterpart in i32).
RECURSIVE DisplayNeg(_)
DisplayNeg(n) ==
    LET d == (10 - (n % 10)) % 10
        rest == (n + d) \div 10
    IN  IF rest = 0 THEN Digit(d) ELSE DisplayNeg(rest) \o Digit(d)

\* Display of an integer ("{}"): decimal digits, "-" before a negative one.
Display(n) == IF n < 0 THEN "-" \o DisplayNeg(n) ELSE DisplayNat(n)

\* The placeholder of a format string.
Hole == "{}"

\* format!: the pieces of the format string in order, every placeholder
\* replaced by the display of the next argument.
RECURSIVE Format(_, _)
Format(pieces, args) ==
    IF pieces = <<>> THEN ""
    ELSE IF Head(pieces) = Hole
         THEN Display(Head(args)) \o Format(Tail(pieces), Tail(args))
         ELSE Head(pieces) \o Format(Tail(pieces), args)

----------------------------------------------------------------------------
\* Literals of 02_variables.rs.

XInit == 5
YInit == 10
YAssigned == 15
\* Variant of ZInit: the largest i32, so that z + 1 leaves the range.
ZInitAtMax == I32Max

ZInit == 5
ZAddend == 1
ZFactor == 2

\* The byte of the space character.
Space == 32

\* Variant of SpacesLiteral: a literal of two spaces.
TwoSpaces == <<Space, Space>>

\* "   ": three bytes 0x20.
SpacesLiteral == <<Space, Space, Space>>

----------------------------------------------------------------------------
\* Steps shared by the statements.

EmptyFrame == [s \in {} |-> 0]

\* The value the name refers to in run r.
Lookup(r, name) == frame[r][env[r][name]]

\* let: a new slot holds the value and the name refers to it from now on.
Declare(r, name, slot, value) ==
    /\ frame' = [frame EXCEPT ![r] = (slot :> value) @@ frame[r]]
    /\ env' = [env EXCEPT ![r] = (name :> slot) @@ env[r]]

\* Variant of Println: the write replaces what was written before.
PrintlnTruncating(r, pieces, args) ==
    out' = [out EXCEPT ![r] = <<Format(pieces, args)>>]

\* println!: one complete line appended to standard output.
Println(r, pieces, args) ==
    out' = [out EXCEPT ![r] = Append(out[r], Format(pieces, args))]

At(r, p, line) ==
    /\ prog[r] = p
    /\ status[r] = "running"
    /\ pc[r] = line

Goto(r, line) == pc' = [pc EXCEPT ![r] = line]

\* The result of an arithmetic expression bound to a new i32 slot.  In
\* range it is stored; out of range the build decides: a panic (overflow
\* checks on) or the wrapped value (overflow checks off).
LetArith(r, name, slot, overflows, v, wrapped, next) ==
    IF ~overflows
    THEN /\ Declare(r, name, slot, I32(v))
         /\ Goto(r, next)
         /\ UNCHANGED <<prog, status, out>>
    ELSE \/ /\ status' = [status EXCEPT ![r] = "panicked"]
            /\ UNCHANGED <<prog, pc, frame, env, out>>
         \/ /\ Declare(r, name, slot, I32(wrapped))
            /\ Goto(r, next)
            /\ UNCHANGED <<prog, status, out>>

----------------------------------------------------------------------------
\* Launching an example: a fresh process at the first statement of main.

FirstLine(p) == IF p = "hello" THEN 5 ELSE 6

Invoke(r) ==
    /\ prog[r] = "none"
    /\ \E p \in Programs :
          /\ prog' = [prog EXCEPT ![r] = p]
          /\ pc' = [pc EXCEPT ![r] = FirstLine(p)]
    /\ status' = [status EXCEPT ![r] = "running"]
    /\ UNCHANGED <<frame, env, out>>

----------------------------------------------------------------------------
\* 01_hello_world.rs

\* Variant of PrintHello: the text differs in one letter.
PrintHelloLowercase(r) ==
    /\ At(r, "hello", 5)
    /\ Println(r, <<"Hello, world!">>, <<>>)
    /\ Goto(r, 6)
    /\ UNCHANGED <<prog, status, frame, env>>

\* println!("Hello, World!");
PrintHello(r) ==
    /\ At(r, "hello", 5)
    /\ Println(r, <<"Hello, World!">>, <<>>)
    /\ Goto(r, 6)
    /\ UNCHANGED <<prog, status, frame, env>>

\* main returns: the process exits with success.
HelloReturn(r) ==
    /\ At(r, "hello", 6)
    /\ status' = [status EXCEPT ![r] = "success"]
    /\ UNCHANGED <<prog, pc, frame, env, out>>

----------------------------------------------------------------------------
\* 02_variables.rs

\* let x = 5;
LetX(r) ==
    /\ At(r, "variables", 6)
    /\ Declare(r, "x", "x", I32(XInit))
    /\ Goto(r, 7)
    /\ UNCHANGED <<prog, status, out>>

\* Variant of PrintX: the value printed depends on state outside the run,
\* the number of invocations that have exited.
PrintXCountingRuns(r) ==
    /\ At(r, "variables", 7)
    /\ Println(r, <<"The value of x is: ", Hole>>,
               <<Lookup(r, "x").val
                   + Cardinality({q \in Runs : status[q] = "success"})>>)
    /\ Goto(r, 13)
    /\ UNCHANGED <<prog, status, frame, env>>

\* println!("The value of x is: {}", x);
PrintX(r) ==
    /\ At(r, "variables", 7)
    /\ Println(r, <<"The value of x is: ", Hole>>, <<Lookup(r, "x").val>>)
    /\ Goto(r, 13)
    /\ UNCHANGED <<prog, status, frame, env>>

\* let mut y = 10;
LetMutY(r) ==
    /\ At(r, "variables", 13)
    /\ Declare(r, "y", "y", I32(YInit))
    /\ Goto(r, 14)
    /\ UNCHANGED <<prog, status, out>>

\* println!("The value of y is: {}", y);
PrintY(r) ==
    /\ At(r, "variables", 14)
    /\ Println(r, <<"The value of y is: ", Hole>>, <<Lookup(r, "y").val>>)
    /\ Goto(r, 16)
    /\ UNCHANGED <<prog, status, frame, env>>

\* Variant of AssignY: the assignment lands in the slot of x.
AssignYIntoX(r) ==
    /\ At(r, "variables", 16)
    /\ frame' = [frame EXCEPT ![r][env[r]["x"]] = I32(YAssigned)]
    /\ Goto(r, 17)
    /\ UNCHANGED <<prog, status, env, out>>

\* Variant of AssignY: the assignment is lost.
AssignYLost(r) ==
    /\ At(r, "variables", 16)
    /\ Goto(r, 17)
    /\ UNCHANGED <<prog, status, frame, env, out>>

\* y = 15;  the slot of y is overwritten, no new slot
AssignY(r) ==
    /\ At(r, "variables", 16)
    /\ frame' = [frame EXCEPT ![r][env[r]["y"]] = I32(YAssigned)]
    /\ Goto(r, 17)
    /\ UNCHANGED <<prog, status, env, out>>

\* println!("The new value of y is: {}", y);
PrintNewY(r) ==
    /\ At(r, "variables", 17)
    /\ Println(r, <<"The new value of y is: ", Hole>>, <<Lookup(r, "y").val>>)
    /\ Goto(r, 20)
    /\ UNCHANGED <<prog, status, frame, env>>

\* let z = 5;
LetZ1(r) ==
    /\ At(r, "variables", 20)
    /\ Declare(r, "z", "z#1", I32(ZInit))
    /\ Goto(r, 21)
    /\ UNCHANGED <<prog, status, out>>

\* Variant of LetZ2: z + 1 is stored into the slot of the first z, as an
\* assignment to a mutable z would.
LetZ2InPlace(r) ==
    /\ At(r, "variables", 21)
    /\ frame' = [frame EXCEPT ![r][env[r]["z"]] =
                    I32(Lookup(r, "z").val + ZAddend)]
    /\ Goto(r, 22)
    /\ UNCHANGED <<prog, status, env, out>>

\* let z = z + 1;  the right-hand side reads the z in scope, the first
LetZ2(r) ==
    /\ At(r, "variables", 21)
    /\ LET z == Lookup(r, "z").val
       IN  LetArith(r, "z", "z#2", AddOverflows(z, ZAddend),
                    z + ZAddend, WrapAdd(z, ZAddend), 22)

\* Variant of LetZ3: the right-hand side reads the first z, not the z in
\* scope.
LetZ3ReadsFirstZ(r) ==
    /\ At(r, "variables", 22)
    /\ LET z == frame[r]["z#1"].val
       IN  LetArith(r, "z", "z#3", MulOverflows(z, ZFactor),
                    z * ZFactor, WrapMul(z, ZFactor), 23)

\* let z = z * 2;  the right-hand side reads the z in scope, the second
LetZ3(r) ==
    /\ At(r, "variables", 22)
    /\ LET z == Lookup(r, "z").val
       IN  LetArith(r, "z", "z#3", MulOverflows(z, ZFactor),
                    z * ZFactor, WrapMul(z, ZFactor), 23)

\* println!("The value of z is: {}", z);
PrintZ(r) ==
    /\ At(r, "variables", 23)
    /\ Println(r, <<"The value of z is: ", Hole>>, <<Lookup(r, "z").val>>)
    /\ Goto(r, 26)
    /\ UNCHANGED <<prog, status, frame, env>>

\* let spaces = "   ";
LetSpaces1(r) ==
    /\ At(r, "variables", 26)
    /\ Declare(r, "spaces", "spaces#1", Str(SpacesLiteral))
    /\ Goto(r, 27)
    /\ UNCHANGED <<prog, status, out>>

\* let spaces = spaces.len();
LetSpaces2(r) ==
    /\ At(r, "variables", 27)
    /\ Declare(r, "spaces", "spaces#2", Usize(StrLen(Lookup(r, "spaces").val)))
    /\ Goto(r, 28)
    /\ UNCHANGED <<prog, status, out>>

\* println!("Number of spaces: {}", spaces);
PrintSpaces(r) ==
    /\ At(r, "variables", 28)
    /\ Println(r, <<"Number of spaces: ", Hole>>, <<Lookup(r, "spaces").val>>)
    /\ Goto(r, 29)
    /\ UNCHANGED <<prog, status, frame, env>>

\* main returns: the bindings are discarded and the process exits with
\* success.
VariablesReturn(r) ==
    /\ At(r, "variables", 29)
    /\ status' = [status EXCEPT ![r] = "success"]
    /\ frame' = [frame EXCEPT ![r] = EmptyFrame]
    /\ env' = [env EXCEPT ![r] = EmptyFrame]
    /\ UNCHANGED <<prog, pc, out>>

----------------------------------------------------------------------------

Init ==
    /\ prog = [r \in Runs |-> "none"]
    /\ pc = [r \in Runs |-> 0]
    /\ status = [r \in Runs |-> "not_started"]
    /\ frame = [r \in Runs |-> EmptyFrame]
    /\ env = [r \in Runs |-> EmptyFrame]
    /\ out = [r \in Runs |-> <<>>]

Step(r) ==
    \/ Invoke(r)
    \/ PrintHello(r)
    \/ HelloReturn(r)
    \/ LetX(r)
    \/ PrintX(r)
    \/ LetMutY(r)
    \/ PrintY(r)
    \/ AssignY(r)
    \/ PrintNewY(r)
    \/ LetZ1(r)
    \/ LetZ2(r)
    \/ LetZ3(r)
    \/ PrintZ(r)
    \/ LetSpaces1(r)
    \/ LetSpaces2(r)
    \/ PrintSpaces(r)
    \/ VariablesReturn(r)

Next == \E r \in Runs : Step(r)

Spec == Init /\ [][Next]_vars

\* A launched process is scheduled until it exits; every invocation asked
\* for is launched.
FairSpec == Spec /\ \A r \in Runs : WF_vars(Step(r))

----------------------------------------------------------------------------
\* The outputs the examples are specified to produce, and helpers of the
\* properties below.

HelloLines == <<"Hello, World!">>

VariablesLines ==
    << "The value of x is: 5",
       "The value of y is: 10",
       "The new value of y is: 15",
       "The value of z is: 12",
       "Number of spaces: 3" >>

FinalOutput(p) ==
    IF p = "hello" THEN HelloLines
    ELSE IF p = "variables" THEN VariablesLines
    ELSE <<>>

IsPrefix(s, t) == Len(s) <= Len(t) /\ s = SubSeq(t, 1, Len(s))

Declared(r, slot) == slot \in DOMAIN frame[r]

Exited(r, p) == prog[r] = p /\ status[r] = "success"

----------------------------------------------------------------------------
\* C1: a run of the variables example that has exited has written exactly
\* the five specified lines, in order, and nothing else.
C1_VariablesOutput ==
    \A r \in Runs : Exited(r, "variables") => out[r] = VariablesLines

C1_Witness == \E r \in Runs : Exited(r, "variables") /\ Len(out[r]) = 5

\* C2: a run of the hello-world example never fails, and once it has exited
\* with success it has written exactly the line "Hello, World!".
C2_HelloOutput ==
    \A r \in Runs :
        prog[r] = "hello" =>
            /\ status[r] \in {"running", "success"}
            /\ status[r] = "success" => out[r] = <<"Hello, World!">>

C2_Witness == \E r \in Runs : Exited(r, "hello") /\ Len(out[r]) = 1

\* C3: the third z holds ((5) + 1) * 2 = 12, not the 11 of multiplying
\* first, the name z refers to it, and it is the value on the fourth line.
C3_ShadowChain ==
    \A r \in Runs :
        /\ Declared(r, "z#3") =>
              /\ frame[r]["z#3"].val = (5 + 1) * 2
              /\ frame[r]["z#3"].val = 12
              /\ frame[r]["z#3"].val # (5 * 2) + 1
              /\ Lookup(r, "z") = frame[r]["z#3"]
        /\ prog[r] = "variables" /\ Len(out[r]) >= 4 =>
              out[r][4] = "The value of z is: 12"

C3_Witness ==
    \E r \in Runs :
        prog[r] = "variables" /\ Declared(r, "z#3") /\ Len(out[r]) = 4

\* C4: the text bound to the first `spaces` is three space characters and
\* nothing else, the second `spaces` is its length, 3, and that is the number
\* on the fifth line.
C4_ThreeSpaces ==
    \A r \in Runs :
        /\ Declared(r, "spaces#1") =>
              LET text == frame[r]["spaces#1"].val
              IN  /\ Len(text) = 3
                  /\ \A i \in 1..Len(text) : text[i] = Space
        /\ Declared(r, "spaces#2") =>
              /\ frame[r]["spaces#2"].val = 3
              /\ frame[r]["spaces#2"].val = StrLen(frame[r]["spaces#1"].val)
        /\ prog[r] = "variables" /\ Len(out[r]) >= 5 =>
              out[r][5] = "Number of spaces: 3"

C4_Witness ==
    \E r \in Runs :
        /\ status[r] = "running"
        /\ Declared(r, "spaces#2")
        /\ Len(out[r]) = 5

\* C5: no run ever fails, and every launched run exits with success.
C5_TerminatesWithSuccess ==
    /\ [](\A r \in Runs : status[r] # "panicked")
    /\ \A r \in Runs : (prog[r] # "none") ~> (status[r] = "success")

C5_Witness ==
    \E r1, r2 \in Runs : Exited(r1, "hello") /\ Exited(r2, "variables")

\* C6: two runs of the same example at the same point of main have the same
\* output and the same bindings; in particular their final outputs agree.
C6_RunsAgree ==
    \A r1, r2 \in Runs :
        prog[r1] = prog[r2] /\ pc[r1] = pc[r2] /\ status[r1] = status[r2] =>
            /\ out[r1] = out[r2]
            /\ frame[r1] = frame[r2]
            /\ env[r1] = env[r2]

C6_Witness ==
    \E r1, r2 \in Runs :
        /\ r1 # r2
        /\ Exited(r1, "variables")
        /\ Exited(r2, "variables")
        /\ out[r1] # <<>>

\* C7: x is in scope and holds 5 from its declaration until main returns,
\* and no step changes the slot of x.
C7_XImmutable ==
    /\ [](\A r \in Runs :
            /\ prog[r] = "variables" /\ status[r] = "running" /\ pc[r] > 6 =>
                  Declared(r, "x") /\ env[r]["x"] = "x"
            /\ Declared(r, "x") => frame[r]["x"] = I32(5))
    /\ [][\A r \in Runs :
            Declared(r, "x") /\ Declared(r, "x")' => frame'[r]["x"] = frame[r]["x"]]_vars

C7_Witness ==
    \E r \in Runs :
        /\ prog[r] = "variables" /\ status[r] = "running" /\ pc[r] = 29
        /\ frame[r]["x"].val = 5
        /\ frame[r]["y"].val = 15

\* C8: y is an i32 throughout; it is 10 when the second line is written,
\* the assignment of 15 is a step taken after that write and before the
\* write of the third line, and the third line shows 15.
C8_YReassigned ==
    /\ [](\A r \in Runs :
            Declared(r, "y") =>
              /\ frame[r]["y"].ty = "i32"
              /\ frame[r]["y"].val \in Int
              /\ Len(out[r]) < 2 => frame[r]["y"].val = 10
              /\ Len(out[r]) >= 2 => out[r][2] = "The value of y is: 10"
              /\ Len(out[r]) >= 3 =>
                    /\ frame[r]["y"].val = 15
                    /\ out[r][3] = "The new value of y is: 15")
    /\ [][\A r \in Runs :
            Declared(r, "y") /\ Declared(r, "y")' =>
              /\ Len(out[r]) = 1 /\ Len(out'[r]) = 2 =>
                    frame[r]["y"].val = 10 /\ frame'[r]["y"].val = 10
              /\ frame'[r]["y"] # frame[r]["y"] =>
                    /\ Len(out[r]) = 2
                    /\ out'[r] = out[r]
                    /\ frame[r]["y"] = I32(10)
                    /\ frame'[r]["y"] = I32(15)
              /\ Len(out[r]) = 2 /\ Len(out'[r]) = 3 =>
                    frame[r]["y"].val = 15]_vars

C8_Witness ==
    \E r \in Runs :
        /\ prog[r] = "variables"
        /\ Declared(r, "y")
        /\ Len(out[r]) = 3
        /\ frame[r]["y"].val = 15

\* C9: after the shadowing declarations the earlier bindings still hold
\* their values (the first z 5, the second 6, the first spaces the text of
\* three spaces) while the names refer to the newest ones (z to 12, spaces
\* to a number); a declaration changes no slot that already exists.
C9_ShadowingKeepsStorage ==
    /\ [](\A r \in Runs :
            /\ Declared(r, "z#3") =>
                  /\ Declared(r, "z#1") /\ frame[r]["z#1"] = I32(5)
                  /\ Declared(r, "z#2") /\ frame[r]["z#2"] = I32(6)
                  /\ env[r]["z"] = "z#3"
                  /\ frame[r]["z#3"] = I32(12)
            /\ Declared(r, "spaces#2") =>
                  /\ Declared(r, "spaces#1")
                  /\ frame[r]["spaces#1"] = Str(<<Space, Space, Space>>)
                  /\ env[r]["spaces"] = "spaces#2"
                  /\ frame[r]["spaces#2"].ty = "usize"
                  /\ frame[r]["spaces#2"].val \in Nat)
    /\ [][\A r \in Runs :
            \A slot \in DOMAIN frame[r] :
                slot # "y" /\ slot \in DOMAIN frame'[r] =>
                    frame'[r][slot] = frame[r][slot]]_vars

C9_Witness ==
    \E r \in Runs :
        /\ Declared(r, "z#3")
        /\ Declared(r, "spaces#2")
        /\ DOMAIN frame[r] = {"x", "y", "z#1", "z#2", "z#3", "spaces#1", "spaces#2"}

\* C10: the output so far is always a prefix of the final output of the
\* example, and every step leaves each output unchanged or appends exactly
\* one line to its end.
C10_AppendOnly ==
    /\ [](\A r \in Runs : IsPrefix(out[r], FinalOutput(prog[r])))
    /\ [][\A r \in Runs :
            \/ out'[r] = out[r]
            \/ /\ Len(out'[r]) = Len(out[r]) + 1
               /\ SubSeq(out'[r], 1, Len(out[r])) = out[r]]_vars

C10_Witness ==
    \E r1, r2 \in Runs :
        /\ Exited(r1, "hello")
        /\ prog[r2] = "variables"
        /\ Len(out[r2]) = 2

====
